---- MODULE Spec2Model ----
(***************************************************************************)
(* A model of repren.py: multi-pattern replacement (multi_replace), the    *)
(* case-variant expander, the pattern-file parser and the file protocol    *)
(* (move_file, transform_file, rewrite_file).                              *)
(*                                                                         *)
(* Conventions.  A string is a sequence of one-character strings.          *)
(* Offsets are Python offsets (0-based, half-open), so s[a:b] is           *)
(* SubSeq(s, a + 1, b).  A compiled regex is modelled by the literal text  *)
(* it matches (patterns without metacharacters); the empty pattern         *)
(* matches the empty string at every offset, as the regex engine does.     *)
(***************************************************************************)
EXTENDS Integers, Sequences, FiniteSets, TLC

VARIABLES
  \* multi_replace
  input, patterns, matches, non_overlaps, starts, mi, skipped, out, pos, ai, mpc,
  \* parse_patterns, and a use of the rules it returns
  patterns_str, preserve_case, plines, pli, parsed, variants, subject, rewritten, ppc,
  \* the file system, the process and the run of rewrite_files
  fs, pre, umask, opts, todo, runs, call, tally, fpc

mrVars ==
  <<input, patterns, matches, non_overlaps, starts, mi, skipped, out, pos, ai, mpc>>

parseVars ==
  <<patterns_str, preserve_case, plines, pli, parsed, variants, subject, rewritten, ppc>>

fileVars ==
  <<fs, pre, umask, opts, todo, runs, call, tally, fpc>>

vars ==
  <<mrVars, parseVars, fileVars>>

notMR ==
  <<parseVars, fileVars>>

notParse ==
  <<mrVars, fileVars>>

notFile ==
  <<mrVars, parseVars>>

(***************************************************************************)
(* Bounds                                                                  *)
(***************************************************************************)
MaxLen ==
  3

MaxRules ==
  2

MaxText ==
  3

MaxRuns ==
  2

MaxMoves ==
  3

(***************************************************************************)
(* Strings                                                                 *)
(***************************************************************************)
RECURSIVE Strings(_, _)
Strings(alphabet, n) ==
  IF n = 0 THEN {<<>>}
  ELSE LET shorter == Strings(alphabet, n - 1)
       IN  shorter \cup {Append(s, c) : s \in {t \in shorter : Len(t) = n - 1}, c \in alphabet}

\* s[a:b] of Python for 0 <= a, b (empty when a >= b)
Slice(s, a, b) ==
  SubSeq(s, a + 1, IF b > Len(s) THEN Len(s) ELSE b)

RECURSIVE Concat(_)
Concat(ss) ==
  IF ss = <<>> THEN <<>> ELSE Head(ss) \o Concat(Tail(ss))

(***************************************************************************)
(* String matching                                                         *)
(***************************************************************************)
\* the template item \g<0> of a replacement: the whole matched text
G0 ==
  "\\g<0>"

\* regex.finditer(input) for one rule: the leftmost, non-overlapping scan
RECURSIVE FindIter(_, _, _, _)
FindIter(rule, idx, s, from) ==
  LET n == Len(rule.pat)
  IN  IF from + n > Len(s) THEN <<>>
      ELSE IF Slice(s, from, from + n) = rule.pat
           THEN <<[start |-> from, end |-> from + n, rule |-> idx, repl |-> rule.repl]>>
                \o FindIter(rule, idx, s, IF n = 0 THEN from + 1 ELSE from + n)
           ELSE FindIter(rule, idx, s, from + 1)

\* the loop of multi_replace that collects the matches later rules first
RECURSIVE FindAllReversed(_, _, _)
FindAllReversed(s, pats, idx) ==
  IF idx > Len(pats) THEN <<>>
  ELSE FindAllReversed(s, pats, idx + 1) \o FindIter(pats[idx], idx, s, 0)

\* the loop of multi_replace over the rules, in declaration order
RECURSIVE FindAll(_, _, _)
FindAll(s, pats, idx) ==
  IF idx > Len(pats) THEN <<>>
  ELSE FindIter(pats[idx], idx, s, 0) \o FindAll(s, pats, idx + 1)

_overlap(match1, match2) ==
  match1.start < match2.end /\ match2.start < match1.end

\* bisect.bisect_left(a, x), by binary search
RECURSIVE BisectLoop(_, _, _, _)
BisectLoop(a, x, lo, hi) ==
  IF lo < hi
  THEN LET mid == (lo + hi) \div 2
       IN  IF a[mid + 1] < x THEN BisectLoop(a, x, mid + 1, hi)
                             ELSE BisectLoop(a, x, lo, mid)
  ELSE lo

bisect_left(a, x) ==
  BisectLoop(a, x, 0, Len(a))

\* list.insert(index, x)
Insert(list, index, x) ==
  SubSeq(list, 1, index) \o <<x>> \o SubSeq(list, index + 1, Len(list))

\* match.expand(replacement)
RECURSIVE Expand(_, _)
Expand(repl, text) ==
  IF repl = <<>> THEN <<>>
  ELSE (IF Head(repl) = G0 THEN text ELSE <<Head(repl)>>) \o Expand(Tail(repl), text)

\* the body of the loop of _sort_drop_overlaps: what becomes of one match
SortDecision(accepted, sts, match) ==
  LET index == bisect_left(sts, match.start)
  IN  IF index > 0 /\ _overlap(accepted[index], match) THEN "left"
      ELSE IF index < Len(accepted) /\ _overlap(accepted[index + 1], match) THEN "right"
      ELSE "accept"

\* _sort_drop_overlaps as a function of the list of matches
RECURSIVE SortDropLoop(_, _, _, _)
SortDropLoop(ms, k, accepted, sts) ==
  IF k > Len(ms) THEN accepted
  ELSE LET match == ms[k]
           index == bisect_left(sts, match.start)
       IN  IF SortDecision(accepted, sts, match) = "accept"
           THEN SortDropLoop(ms, k + 1, Insert(accepted, index, match), Insert(sts, index, match.start))
           ELSE SortDropLoop(ms, k + 1, accepted, sts)

_sort_drop_overlaps(ms) ==
  SortDropLoop(ms, 1, <<>>, <<>>)

\* _apply_replacements as a function
RECURSIVE ApplyLoop(_, _, _, _)
ApplyLoop(s, sel, k, from) ==
  IF k > Len(sel) THEN Slice(s, from, Len(s))
  ELSE Slice(s, from, sel[k].start)
       \o Expand(sel[k].repl, Slice(s, sel[k].start, sel[k].end))
       \o ApplyLoop(s, sel, k + 1, sel[k].end)

_apply_replacements(s, sel) ==
  ApplyLoop(s, sel, 1, 0)

\* multi_replace: the result and the _MatchCounts it returns
multi_replace(s, pats) ==
  LET ms == FindAll(s, pats, 1)
      valid_matches == _sort_drop_overlaps(ms)
  IN  [result |-> _apply_replacements(s, valid_matches),
       found |-> Len(ms), valid |-> Len(valid_matches)]

(***************************************************************************)
(* The rules and buffers multi_replace is run on                           *)
(***************************************************************************)
Str_ab == <<"a", "b">>
Str_foo == <<"f", "o", "o">>
Str_bar == <<"b", "a", "r">>
Str_foo_bar == <<"f", "o", "o", " ", "b", "a", "r">>

Rule(pat, repl) ==
  [pat |-> pat, repl |-> repl]

RuleSet ==
  { Rule(<<"a">>, <<"X">>), Rule(Str_ab, <<"Y">>), Rule(<<>>, <<"E">>),
    Rule(<<"a">>, <<"b">>), Rule(<<"b">>, <<"a">>), Rule(<<"b">>, <<G0, G0>>) }

RECURSIVE RuleLists(_)
RuleLists(n) ==
  IF n = 0 THEN {<<>>}
  ELSE LET shorter == RuleLists(n - 1)
       IN  shorter \cup {Append(l, r) : l \in {t \in shorter : Len(t) = n - 1}, r \in RuleSet}

SwapRules ==
  <<Rule(Str_foo, Str_bar), Rule(Str_bar, Str_foo)>>

Buffers ==
  Strings({"a", "b"}, MaxLen) \cup {Str_foo_bar}

PatternLists ==
  (RuleLists(MaxRules) \ {<<>>}) \cup {SwapRules}

(***************************************************************************)
(* multi_replace, step by step                                             *)
(***************************************************************************)
IdleMR ==
  /\ input = <<>> /\ patterns = <<>> /\ matches = <<>> /\ non_overlaps = <<>>
  /\ starts = <<>> /\ mi = 0 /\ skipped = <<>> /\ out = <<>> /\ pos = 0 /\ ai = 0
  /\ mpc = "idle"

IdleParse ==
  /\ patterns_str = <<>> /\ preserve_case = FALSE /\ plines = <<>> /\ pli = 0
  /\ parsed = <<>> /\ variants = <<>> /\ subject = <<>> /\ rewritten = <<>>
  /\ ppc = "idle"

IdleFile ==
  /\ fs = <<>> /\ pre = <<>> /\ umask = {} /\ opts = <<>> /\ todo = {} /\ runs = 0
  /\ call = <<>> /\ tally = <<>> /\ fpc = "off"

InitMR ==
  /\ IdleParse /\ IdleFile
  /\ input \in Buffers
  /\ patterns \in PatternLists
  /\ matches = <<>>
  /\ non_overlaps = <<>>
  /\ starts = <<>>
  /\ mi = 0
  /\ skipped = <<>>
  /\ out = <<>>
  /\ pos = 0
  /\ ai = 0
  /\ mpc = "find"

\* multi_replace, lines 177-180: all matches of all rules
FindMatches ==
  /\ mpc = "find"
  /\ matches' = FindAll(input, patterns, 1)
  /\ mpc' = "sort"
  /\ UNCHANGED <<input, patterns, non_overlaps, starts, mi, skipped, out, pos, ai>>
  /\ UNCHANGED notMR

\* one iteration of the loop of _sort_drop_overlaps that skips the match
\* because it overlaps the accepted match on its left
SkipLeft ==
  /\ mpc = "sort" /\ mi < Len(matches)
  /\ LET match == matches[mi + 1]
         index == bisect_left(starts, match.start)
     IN  /\ SortDecision(non_overlaps, starts, match) = "left"
         /\ skipped' = Append(skipped, [match |-> match, by |-> non_overlaps[index], side |-> "left"])
  /\ mi' = mi + 1
  /\ UNCHANGED <<input, patterns, matches, non_overlaps, starts, out, pos, ai, mpc>>
  /\ UNCHANGED notMR

\* ... or because it overlaps the accepted match on its right
SkipRight ==
  /\ mpc = "sort" /\ mi < Len(matches)
  /\ LET match == matches[mi + 1]
         index == bisect_left(starts, match.start)
     IN  /\ SortDecision(non_overlaps, starts, match) = "right"
         /\ skipped' = Append(skipped, [match |-> match, by |-> non_overlaps[index + 1], side |-> "right"])
  /\ mi' = mi + 1
  /\ UNCHANGED <<input, patterns, matches, non_overlaps, starts, out, pos, ai, mpc>>
  /\ UNCHANGED notMR

\* ... or that accepts the match, inserting it at its sorted position
Accept ==
  /\ mpc = "sort" /\ mi < Len(matches)
  /\ LET match == matches[mi + 1]
         index == bisect_left(starts, match.start)
     IN  /\ SortDecision(non_overlaps, starts, match) = "accept"
         /\ starts' = Insert(starts, index, match.start)
         /\ non_overlaps' = Insert(non_overlaps, index, match)
  /\ mi' = mi + 1
  /\ UNCHANGED <<input, patterns, matches, skipped, out, pos, ai, mpc>>
  /\ UNCHANGED notMR

\* _sort_drop_overlaps returns; _apply_replacements starts with pos = 0
SortDone ==
  /\ mpc = "sort" /\ mi = Len(matches)
  /\ mpc' = "apply"
  /\ out' = <<>> /\ pos' = 0 /\ ai' = 0
  /\ UNCHANGED <<input, patterns, matches, non_overlaps, starts, mi, skipped>>
  /\ UNCHANGED notMR

\* one iteration of the loop of _apply_replacements
ApplyOne ==
  /\ mpc = "apply" /\ ai < Len(non_overlaps)
  /\ LET match == non_overlaps[ai + 1]
     IN  /\ out' = out \o Slice(input, pos, match.start)
                       \o Expand(match.repl, Slice(input, match.start, match.end))
         /\ pos' = match.end
  /\ ai' = ai + 1
  /\ UNCHANGED <<input, patterns, matches, non_overlaps, starts, mi, skipped, mpc>>
  /\ UNCHANGED notMR

\* the tail of the input, and the join
ApplyDone ==
  /\ mpc = "apply" /\ ai = Len(non_overlaps)
  /\ out' = out \o Slice(input, pos, Len(input))
  /\ mpc' = "done"
  /\ UNCHANGED <<input, patterns, matches, non_overlaps, starts, mi, skipped, pos, ai>>
  /\ UNCHANGED notMR

NextMR ==
  \/ FindMatches
  \/ SkipLeft
  \/ SkipRight
  \/ Accept
  \/ SortDone
  \/ ApplyOne
  \/ ApplyDone

SpecMR ==
  InitMR /\ [][NextMR]_vars

(***************************************************************************)
(* Case handling.  Letters are the plain ASCII letters the model's texts   *)
(* use; Ord is the character code, which orders strings.                   *)
(***************************************************************************)
LowerLetters ==
  <<"a", "b", "f", "o", "r", "x", "y">>

UpperLetters ==
  <<"A", "B", "F", "O", "R", "X", "Y">>

Ord(c) ==
  CASE c = "\t" -> 9 [] c = "\n" -> 10 [] c = " " -> 32 [] c = "#" -> 35 [] c = "-" -> 45
    [] c = "A" -> 65 [] c = "B" -> 66 [] c = "F" -> 70 [] c = "O" -> 79 [] c = "R" -> 82
    [] c = "X" -> 88 [] c = "Y" -> 89 [] c = "_" -> 95
    [] c = "a" -> 97 [] c = "b" -> 98 [] c = "f" -> 102 [] c = "o" -> 111 [] c = "r" -> 114
    [] c = "x" -> 120 [] c = "y" -> 121

IsUpper(c) ==
  \E i \in 1..Len(UpperLetters) : UpperLetters[i] = c

IsLower(c) ==
  \E i \in 1..Len(LowerLetters) : LowerLetters[i] = c

\* \w of the regex engine
IsWordChar(c) ==
  IsUpper(c) \/ IsLower(c) \/ c = "_"

\* str.isspace, for str.strip
IsSpace(c) ==
  c \in {" ", "\t", "\n"}

UpperChar(c) ==
  IF IsLower(c) THEN UpperLetters[CHOOSE i \in 1..Len(LowerLetters) : LowerLetters[i] = c] ELSE c

LowerChar(c) ==
  IF IsUpper(c) THEN LowerLetters[CHOOSE i \in 1..Len(UpperLetters) : UpperLetters[i] = c] ELSE c

\* str.upper, str.lower
upper(s) ==
  [i \in 1..Len(s) |-> UpperChar(s[i])]

lower(s) ==
  [i \in 1..Len(s) |-> LowerChar(s[i])]

\* str.split(sep) for a one-character separator
RECURSIVE SplitFrom(_, _, _, _)
SplitFrom(s, sep, i, word) ==
  IF i > Len(s) THEN <<word>>
  ELSE IF s[i] = sep THEN <<word>> \o SplitFrom(s, sep, i + 1, <<>>)
  ELSE SplitFrom(s, sep, i + 1, Append(word, s[i]))

split(s, sep) ==
  SplitFrom(s, sep, 1, <<>>)

\* str.join
RECURSIVE join(_, _)
join(sep, words) ==
  IF words = <<>> THEN <<>>
  ELSE IF Len(words) = 1 THEN words[1]
  ELSE words[1] \o sep \o join(sep, Tail(words))

\* _camel_split_pat1.sub("\\1\t\\2", name): ([^A-Z])([A-Z])
RECURSIVE CamelSub1(_, _)
CamelSub1(s, i) ==
  IF i > Len(s) THEN <<>>
  ELSE IF i + 1 <= Len(s) /\ ~IsUpper(s[i]) /\ IsUpper(s[i + 1])
       THEN <<s[i], "\t", s[i + 1]>> \o CamelSub1(s, i + 2)
       ELSE <<s[i]>> \o CamelSub1(s, i + 1)

\* _camel_split_pat2.sub("\\1\t\\2", temp): ([A-Z])([A-Z][^A-Z])
RECURSIVE CamelSub2(_, _)
CamelSub2(s, i) ==
  IF i > Len(s) THEN <<>>
  ELSE IF i + 2 <= Len(s) /\ IsUpper(s[i]) /\ IsUpper(s[i + 1]) /\ ~IsUpper(s[i + 2])
       THEN <<s[i], "\t", s[i + 1], s[i + 2]>> \o CamelSub2(s, i + 3)
       ELSE <<s[i]>> \o CamelSub2(s, i + 1)

\* _split_name(name)[1]: the words of a name
_split_name(name) ==
  IF \E i \in 1..Len(name) : name[i] = "_"
  THEN split(name, "_")
  ELSE split(CamelSub2(CamelSub1(name, 1), 1), "\t")

\* a _capitalize that upper-cases the whole word
CapitalizeAll(word) ==
  upper(word)

_capitalize(word) ==
  <<UpperChar(word[1])>> \o lower(Tail(word))

to_lower_camel(name) ==
  LET words == _split_name(name)
  IN  lower(words[1]) \o join(<<>>, [i \in 1..(Len(words) - 1) |-> _capitalize(words[i + 1])])

to_upper_camel(name) ==
  LET words == _split_name(name)
  IN  join(<<>>, [i \in 1..Len(words) |-> _capitalize(words[i])])

to_lower_underscore(name) ==
  LET words == _split_name(name)
  IN  join(<<"_">>, [i \in 1..Len(words) |-> lower(words[i])])

to_upper_underscore(name) ==
  LET words == _split_name(name)
  IN  join(<<"_">>, [i \in 1..Len(words) |-> upper(words[i])])

\* the four transforms, in the order all_case_variants lists them
Transforms ==
  <<"to_lower_camel", "to_upper_camel", "to_lower_underscore", "to_upper_underscore">>

ApplyTransform(transform, name) ==
  CASE transform = "to_lower_camel" -> to_lower_camel(name)
    [] transform = "to_upper_camel" -> to_upper_camel(name)
    [] transform = "to_lower_underscore" -> to_lower_underscore(name)
    [] transform = "to_upper_underscore" -> to_upper_underscore(name)

\* _name_pat.sub(lambda m: transform(m.group()), expr): every maximal run of
\* word characters is replaced by its transform
RECURSIVE TransformFrom(_, _, _, _)
TransformFrom(expr, transform, i, name) ==
  IF i > Len(expr)
  THEN (IF name = <<>> THEN <<>> ELSE ApplyTransform(transform, name))
  ELSE IF IsWordChar(expr[i])
       THEN TransformFrom(expr, transform, i + 1, Append(name, expr[i]))
       ELSE (IF name = <<>> THEN <<>> ELSE ApplyTransform(transform, name))
            \o <<expr[i]>> \o TransformFrom(expr, transform, i + 1, <<>>)

_transform_expr(expr, transform) ==
  TransformFrom(expr, transform, 1, <<>>)

all_case_variants(expr) ==
  [i \in 1..Len(Transforms) |-> _transform_expr(expr, Transforms[i])]

(***************************************************************************)
(* parse_patterns                                                          *)
(***************************************************************************)
\* str.splitlines: the lines without their terminators; no last empty line
RECURSIVE SplitLinesFrom(_, _, _)
SplitLinesFrom(s, i, line) ==
  IF i > Len(s) THEN (IF line = <<>> THEN <<>> ELSE <<line>>)
  ELSE IF s[i] = "\n" THEN <<line>> \o SplitLinesFrom(s, i + 1, <<>>)
  ELSE SplitLinesFrom(s, i + 1, Append(line, s[i]))

splitlines(s) ==
  SplitLinesFrom(s, 1, <<>>)

\* str.strip
RECURSIVE lstrip(_)
lstrip(s) ==
  IF s # <<>> /\ IsSpace(Head(s)) THEN lstrip(Tail(s)) ELSE s

RECURSIVE rstrip(_)
rstrip(s) ==
  IF s # <<>> /\ IsSpace(s[Len(s)]) THEN rstrip(SubSeq(s, 1, Len(s) - 1)) ELSE s

strip(s) ==
  rstrip(lstrip(s))

\* the order of str: by character code, a proper prefix first
RECURSIVE StrLess(_, _)
StrLess(a, b) ==
  IF b = <<>> THEN FALSE
  ELSE IF a = <<>> THEN TRUE
  ELSE IF Head(a) = Head(b) THEN StrLess(Tail(a), Tail(b))
  ELSE Ord(Head(a)) < Ord(Head(b))

\* the order of the (regex, replacement) tuples
PairLess(p, q) ==
  StrLess(p[1], q[1]) \/ (p[1] = q[1] /\ StrLess(p[2], q[2]))

\* sorted(set(pairs))
RECURSIVE SortedPairs(_)
SortedPairs(S) ==
  IF S = {} THEN <<>>
  ELSE LET least == CHOOSE p \in S : \A q \in S \ {p} : PairLess(p, q)
       IN  <<least>> \o SortedPairs(S \ {least})

\* lines 358-363: the pairs of one pattern line
LinePairs(regex, replacement, pcase) ==
  LET rv == all_case_variants(regex)
      pv == all_case_variants(replacement)
      zipped == IF pcase THEN {<<rv[i], pv[i]>> : i \in 1..Len(Transforms)} ELSE {}
  IN  SortedPairs(zipped \cup {<<regex, replacement>>})

\* lines 364-367: the pairs compiled into rules
CompilePairs(pairs) ==
  [i \in 1..Len(pairs) |-> Rule(pairs[i][1], pairs[i][2])]

\* the branch of lines 352-369 a line takes
LineKind(line) ==
  IF strip(line) # <<>> /\ Head(strip(line)) = "#" THEN "comment"
  ELSE IF strip(line) # <<>> /\ Len(split(line, "\t")) = 2 THEN "rule"
  ELSE "invalid"

(***************************************************************************)
(* The pattern files parse_patterns is run on.  Their names have no empty  *)
(* words (no leading, trailing or doubled underscore): the case of         *)
(* "Assumes each pattern has one casing convention".                       *)
(***************************************************************************)
Str_fooBar == <<"f", "o", "o", "B", "a", "r">>
Str_FooBar == <<"F", "o", "o", "B", "a", "r">>
Str_foo_bar_name == <<"f", "o", "o", "_", "b", "a", "r">>
Str_FOO_BAR == <<"F", "O", "O", "_", "B", "A", "R">>
Str_xxxYyy == <<"x", "x", "x", "Y", "y", "y">>
Str_xxxYYY == <<"x", "x", "x", "Y", "Y", "Y">>
Str_XxxYyy == <<"X", "x", "x", "Y", "y", "y">>
Str_xxx_yyy == <<"x", "x", "x", "_", "y", "y", "y">>
Str_XXX_YYY == <<"X", "X", "X", "_", "Y", "Y", "Y">>

\* the pattern file of the module docstring: foo_bar -> xxx_yyy
DocPatterns ==
  Str_foo_bar_name \o <<"\t">> \o Str_xxx_yyy

CasePatterns ==
  { DocPatterns,
    Str_FooBar \o <<"\t">> \o Str_xxx_yyy \o <<"\n", "#", "\n">> \o <<"a", "\t", "b">>,
    <<"A", "B", "a", "-", "b", "_", "a", "\t", "x", "Y">>,
    <<"a", "B", "A", "\t", "b", "-", "f", "o", "o", "\n", "a", "\t", "b">>,
    Str_FOO_BAR \o <<"\t">> \o Str_fooBar,
    <<"b", "\t", "b">> }

PatternTexts ==
  Strings({"a", "\t", "#", " ", "\n"}, MaxText) \cup CasePatterns

Subjects ==
  {Str_fooBar, Str_FooBar, Str_foo_bar_name, Str_FOO_BAR, <<"a", "b">>}

(***************************************************************************)
(* parse_patterns, line by line, and multi_replace with its rules          *)
(***************************************************************************)
\* line 349: the lines of the pattern file
ParseStart ==
  /\ ppc = "start"
  /\ plines' = splitlines(patterns_str)
  /\ ppc' = "lines"
  /\ UNCHANGED <<patterns_str, preserve_case, pli, parsed, variants, subject, rewritten>>
  /\ UNCHANGED notParse

\* lines 352-353: a comment line
ParseComment ==
  /\ ppc = "lines" /\ pli < Len(plines)
  /\ LineKind(plines[pli + 1]) = "comment"
  /\ pli' = pli + 1
  /\ UNCHANGED <<patterns_str, preserve_case, plines, parsed, variants, subject, rewritten, ppc>>
  /\ UNCHANGED notParse

\* lines 354-367: a line of two tab-separated fields
ParseRule ==
  /\ ppc = "lines" /\ pli < Len(plines)
  /\ LineKind(plines[pli + 1]) = "rule"
  /\ LET bits == split(plines[pli + 1], "\t")
     IN  /\ parsed' = parsed \o CompilePairs(LinePairs(bits[1], bits[2], preserve_case))
         /\ variants' = IF preserve_case
                        THEN <<all_case_variants(bits[1]), all_case_variants(bits[2])>>
                        ELSE variants
  /\ pli' = pli + 1
  /\ UNCHANGED <<patterns_str, preserve_case, plines, subject, rewritten, ppc>>
  /\ UNCHANGED notParse

\* lines 368-369: fail(), which ends the process
ParseFail ==
  /\ ppc = "lines" /\ pli < Len(plines)
  /\ LineKind(plines[pli + 1]) = "invalid"
  /\ pli' = pli + 1
  /\ ppc' = "failed"
  /\ UNCHANGED <<patterns_str, preserve_case, plines, parsed, variants, subject, rewritten>>
  /\ UNCHANGED notParse

\* line 373
ParseReturn ==
  /\ ppc = "lines" /\ pli = Len(plines)
  /\ ppc' = "parsed"
  /\ UNCHANGED <<patterns_str, preserve_case, plines, pli, parsed, variants, subject, rewritten>>
  /\ UNCHANGED notParse

\* lines 413-414 and 430-431: the rules, when there are any, rewrite a text
Rewrite ==
  /\ ppc = "parsed" /\ Len(parsed) > 0
  /\ \E text \in Subjects :
       /\ subject' = text
       /\ rewritten' = multi_replace(text, parsed).result
  /\ ppc' = "rewritten"
  /\ UNCHANGED <<patterns_str, preserve_case, plines, pli, parsed, variants>>
  /\ UNCHANGED notParse

InitParse ==
  /\ IdleMR /\ IdleFile
  /\ patterns_str \in PatternTexts
  /\ preserve_case \in BOOLEAN
  /\ plines = <<>> /\ pli = 0 /\ parsed = <<>> /\ variants = <<>>
  /\ subject = <<>> /\ rewritten = <<>>
  /\ ppc = "start"

NextParse ==
  \/ ParseStart
  \/ ParseComment
  \/ ParseRule
  \/ ParseFail
  \/ ParseReturn
  \/ Rewrite

SpecParse ==
  InitParse /\ [][NextParse]_vars

(***************************************************************************)
(* File handling.  A path is the string of its characters; all paths lie  *)
(* in one existing directory, so make_parent_dirs has nothing to create.   *)
(* A file is its data and its permission bits; the file system maps the    *)
(* existing paths to their files.                                          *)
(***************************************************************************)
BACKUP_SUFFIX ==
  <<".", "o", "r", "i", "g">>

TEMP_SUFFIX ==
  <<".", "r", "e", "p", "r", "e", "n", ".", "t", "m", "p">>

\* "%s" % i
RECURSIVE Decimal(_)
Decimal(i) ==
  IF i < 10 THEN <<ToString(i)>> ELSE Decimal(i \div 10) \o <<ToString(i % 10)>>

\* ".%s" % i
NumSuffix(i) ==
  <<".">> \o Decimal(i)

\* path + suffix
PlusSuffix(path, suffix) ==
  path \o suffix

\* str.endswith(suffix)
EndsWith(path, suffix) ==
  /\ Len(path) >= Len(suffix)
  /\ SubSeq(path, Len(path) - Len(suffix) + 1, Len(path)) = suffix

File(data, mode) ==
  [data |-> data, mode |-> mode]

\* os.path.exists
Exists(fsys, path) ==
  path \in DOMAIN fsys

\* \d
IsDigit(c) ==
  c \in {ToString(d) : d \in 0..9}

\* where "[.]\d+$" matches in "(.*)[.]\d+$": the offsets of a "." that has
\* digits, and at least one, up to the end
TrailingNumDots(path) ==
  {k \in 1..(Len(path) - 1) :
     path[k] = "." /\ \A d \in (k + 1)..Len(path) : IsDigit(path[d])}

\* trailing_num.match(dest_path)
HasTrailingNum(path) ==
  TrailingNumDots(path) # {}

\* match.group(1)
WithoutTrailingNum(path) ==
  SubSeq(path, 1, (CHOOSE k \in TrailingNumDots(path) : TRUE) - 1)

\* the while loop of move_file: the path the file is moved to, and the
\* value of i when the loop ends
RECURSIVE FreePath(_, _, _)
FreePath(fsys, dest_path, i) ==
  IF Exists(fsys, dest_path)
  THEN LET base == IF HasTrailingNum(dest_path) THEN WithoutTrailingNum(dest_path)
                   ELSE dest_path
       IN  FreePath(fsys, PlusSuffix(base, NumSuffix(i)), i + 1)
  ELSE [path |-> dest_path, i |-> i]

\* a move_file that never looks for a free path
ClobberingTarget(fsys, dest_path, clobber) ==
  [path |-> dest_path, i |-> 1]

\* move_file, lines 251-259: where the file goes
MoveTarget(fsys, dest_path, clobber) ==
  IF ~clobber THEN FreePath(fsys, dest_path, 1) ELSE [path |-> dest_path, i |-> 1]

\* shutil.move(source_path, dest_path) of a file: a rename, which replaces
\* a file at dest_path
Rename(fsys, source_path, dest_path) ==
  [p \in (DOMAIN fsys \ {source_path}) \cup {dest_path} |->
     IF p = dest_path THEN fsys[source_path] ELSE fsys[p]]

move_file(fsys, source_path, dest_path, clobber) ==
  Rename(fsys, source_path, MoveTarget(fsys, dest_path, clobber).path)

\* os.remove
Remove(fsys, path) ==
  [p \in DOMAIN fsys \ {path} |-> fsys[p]]

\* os.open(temp_path, os.O_WRONLY | os.O_CREAT, perms): a new file gets the
\* bits of perms that the umask leaves; an existing file is opened as it is
OpenTemp(fsys, temp_path, perms, mask) ==
  IF Exists(fsys, temp_path) THEN fsys
  ELSE [p \in DOMAIN fsys \cup {temp_path} |->
          IF p = temp_path THEN File(<<>>, perms \ mask) ELSE fsys[p]]

\* writing text from offset 0 of a file that was not truncated
WriteOver(fsys, path, text) ==
  [fsys EXCEPT ![path].data = text \o SubSeq(@, Len(text) + 1, Len(@))]

\* "for line in input": the lines, each with its terminator
RECURSIVE FileLinesFrom(_, _, _)
FileLinesFrom(s, i, line) ==
  IF i > Len(s) THEN (IF line = <<>> THEN <<>> ELSE <<line>>)
  ELSE IF s[i] = "\n" THEN <<Append(line, s[i])>> \o FileLinesFrom(s, i + 1, <<>>)
  ELSE FileLinesFrom(s, i + 1, Append(line, s[i]))

FileLines(s) ==
  FileLinesFrom(s, 1, <<>>)

\* _MatchCounts
MatchCounts(found, valid) ==
  [found |-> found, valid |-> valid]

\* the by_line branch of transform_stream: what is written, and the counts
RECURSIVE StreamLines(_, _, _)
StreamLines(pats, lines, k) ==
  IF k > Len(lines) THEN [written |-> <<>>, counts |-> MatchCounts(0, 0)]
  ELSE LET r == multi_replace(lines[k], pats)
           rest == StreamLines(pats, lines, k + 1)
       IN  [written |-> r.result \o rest.written,
            counts |-> MatchCounts(r.found + rest.counts.found, r.valid + rest.counts.valid)]

\* transform_stream with transform = multi_replace(., pats).  In the other
\* branch new_counts is never added to counts.
transform_stream(pats, contents, by_line) ==
  IF by_line THEN StreamLines(pats, FileLines(contents), 1)
  ELSE [written |-> multi_replace(contents, pats).result, counts |-> MatchCounts(0, 0)]

\* temp_path = dest_path + temp_suffix
TempPath(dest_path) ==
  PlusSuffix(dest_path, TEMP_SUFFIX)

\* orig_path = source_path + orig_suffix
OrigPath(source_path) ==
  PlusSuffix(source_path, BACKUP_SUFFIX)

\* rewrite_file, line 309
DestPath(path, pats, renames) ==
  IF renames THEN multi_replace(path, pats).result ELSE path

\* the directory the files are in
Dir ==
  <<".">>

\* walk_files, lines 328-333: a root that is a file is taken as it is; in
\* the walk of a directory backup and temp files are pruned (no file name
\* here starts with ".", so exclude_pat prunes nothing)
walk_files(fsys, paths) ==
  UNION { IF paths[r] = Dir
          THEN {p \in DOMAIN fsys : ~EndsWith(p, BACKUP_SUFFIX) /\ ~EndsWith(p, TEMP_SUFFIX)}
          ELSE {paths[r]} : r \in 1..Len(paths) }

(***************************************************************************)
(* The runs of rewrite_files                                               *)
(***************************************************************************)
PermBits ==
  {"u_r", "u_w", "g_w"}

P_a == <<"a">>
P_b == <<"b">>

\* the files a run may find: "a" is there, the others may be
CoreFiles ==
  P_a :> File(<<"a", "\n", "b">>, {"u_r", "u_w", "g_w"})

OptionalFiles ==
  { <<P_b, File(<<"b">>, {"u_r", "u_w"})>>,
    <<OrigPath(P_a), File(<<"o">>, {"u_r"})>>,
    <<TempPath(P_a), File(<<"t", "t", "t", "t">>, {"u_w"})>>,
    <<TempPath(P_b), File(<<"a", "t", "t", "t">>, {"u_w"})>> }

FileSystemOf(chosen) ==
  [p \in {P_a} \cup {c[1] : c \in chosen} |->
     IF p = P_a THEN CoreFiles[P_a] ELSE (CHOOSE c \in chosen : c[1] = p)[2]]

FilePatternLists ==
  { <<Rule(<<"a">>, <<"b">>)>>,
    <<Rule(<<"a">>, <<"b">>), Rule(<<"b">>, <<"a">>)>>,
    <<Rule(<<"a">>, <<"b">>), Rule(TEMP_SUFFIX, <<>>)>> }

\* the path arguments: the directory, or a file named on the command line
RootPaths ==
  { <<Dir>>, <<TempPath(P_b)>> }

\* --renames, the default (contents only), --full: lines 398-399
Modes ==
  { [do_renames |-> TRUE, do_contents |-> FALSE],
    [do_renames |-> FALSE, do_contents |-> TRUE],
    [do_renames |-> TRUE, do_contents |-> TRUE] }

NoCall ==
  [path |-> P_a, dest |-> P_a, temp |-> P_a, orig |-> P_a, final |-> P_a, perms |-> {},
   written |-> <<>>, counts |-> MatchCounts(0, 0), outcome |-> "none", log |-> <<>>]

NoTally ==
  [files |-> 0, files_written |-> 0, renames |-> 0]

InitFile ==
  /\ IdleMR /\ IdleParse
  /\ \E chosen \in SUBSET OptionalFiles : fs = FileSystemOf(chosen)
  /\ pre = fs
  /\ umask \in {{}, {"g_w"}}
  /\ \E mode \in Modes, pats \in FilePatternLists, by_line \in BOOLEAN, dry_run \in BOOLEAN,
        root_paths \in RootPaths :
       opts = [do_renames |-> mode.do_renames, do_contents |-> mode.do_contents,
               patterns |-> pats, by_line |-> by_line, dry_run |-> dry_run,
               root_paths |-> root_paths]
  /\ todo = {}
  /\ runs = 0
  /\ call = NoCall
  /\ tally = NoTally
  /\ fpc = "idle"

\* os.path.exists(path) of line 326, for every root
RootsExist(fsys, paths) ==
  \A r \in 1..Len(paths) : paths[r] = Dir \/ Exists(fsys, paths[r])

\* rewrite_files, line 338: the files of the run
StartRun ==
  /\ fpc = "idle" /\ runs < MaxRuns
  /\ RootsExist(fs, opts.root_paths)
  /\ runs' = runs + 1
  /\ todo' = walk_files(fs, opts.root_paths)
  /\ tally' = NoTally
  /\ fpc' = "run"
  /\ UNCHANGED <<fs, pre, umask, opts, call>>
  /\ UNCHANGED notFile

\* walk_files, lines 326-327: fail("path not found"), which ends the
\* process
PathNotFound ==
  /\ fpc = "idle" /\ runs < MaxRuns
  /\ ~RootsExist(fs, opts.root_paths)
  /\ runs' = runs + 1
  /\ UNCHANGED <<fs, pre, umask, opts, todo, call, tally, fpc>>
  /\ UNCHANGED notFile

\* rewrite_files, lines 340-341, when every file is done
EndRun ==
  /\ fpc = "run" /\ todo = {}
  /\ fpc' = "idle"
  /\ UNCHANGED <<fs, pre, umask, opts, todo, runs, call, tally>>
  /\ UNCHANGED notFile

\* the messages of rewrite_file, lines 315-318
RewriteLog(path, dest, counts) ==
  (IF counts.found > 0 THEN <<[op |-> "modify", path |-> path, dest |-> path]>> ELSE <<>>)
  \o (IF dest # path THEN <<[op |-> "rename", path |-> path, dest |-> dest]>> ELSE <<>>)

\* the _tally of transform_file, lines 299-304
Tallied(t, counts, source_path, dest_path) ==
  [files |-> t.files + 1,
   files_written |-> t.files_written + (IF counts.found > 0 THEN 1 ELSE 0),
   renames |-> t.renames + (IF counts.found > 0 /\ dest_path # source_path THEN 1 ELSE 0)]

\* rewrite_file without do_contents: transform is None, transform_file
\* returns at once
RewriteNoTransform ==
  /\ fpc = "run" /\ ~opts.do_contents
  /\ \E path \in todo :
       LET dest == DestPath(path, opts.patterns, opts.do_renames)
       IN  /\ todo' = todo \ {path}
           /\ call' = [path |-> path, dest |-> dest, temp |-> TempPath(dest),
                       orig |-> OrigPath(path), final |-> dest, perms |-> {},
                       written |-> <<>>, counts |-> MatchCounts(0, 0), outcome |-> "skipped",
                       log |-> RewriteLog(path, dest, MatchCounts(0, 0))]
  /\ pre' = fs
  /\ UNCHANGED <<fs, umask, opts, runs, tally, fpc>>
  /\ UNCHANGED notFile

\* transform_file, lines 284-289: stat, and both files opened
OpenFiles ==
  /\ fpc = "run" /\ opts.do_contents
  /\ \E path \in todo :
       LET dest == DestPath(path, opts.patterns, opts.do_renames)
           perms == fs[path].mode
       IN  /\ todo' = todo \ {path}
           /\ call' = [path |-> path, dest |-> dest, temp |-> TempPath(dest),
                       orig |-> OrigPath(path), final |-> dest, perms |-> perms,
                       written |-> <<>>, counts |-> MatchCounts(0, 0), outcome |-> "open",
                       log |-> <<>>]
           /\ fs' = OpenTemp(fs, TempPath(dest), perms, umask)
  /\ pre' = fs
  /\ fpc' = "stream"
  /\ UNCHANGED <<umask, opts, runs, tally>>
  /\ UNCHANGED notFile

\* ... or an error of stat or open: the exception ends the run
OpenFails ==
  /\ fpc = "run" /\ opts.do_contents
  /\ \E path \in todo :
       LET dest == DestPath(path, opts.patterns, opts.do_renames)
       IN  call' = [path |-> path, dest |-> dest, temp |-> TempPath(dest),
                    orig |-> OrigPath(path), final |-> dest, perms |-> {},
                    written |-> <<>>, counts |-> MatchCounts(0, 0), outcome |-> "failed",
                    log |-> <<>>]
  /\ pre' = fs
  /\ todo' = {}
  /\ fpc' = "idle"
  /\ UNCHANGED <<fs, umask, opts, runs, tally>>
  /\ UNCHANGED notFile

\* transform_stream, line 290, and the files closed.  The files are
\* shorter than an I/O buffer: the source is read whole before the first
\* write reaches the temp file.
StreamAll ==
  /\ fpc = "stream"
  /\ LET s == transform_stream(opts.patterns, fs[call.path].data, opts.by_line)
     IN  /\ fs' = WriteOver(fs, call.temp, s.written)
         /\ call' = [call EXCEPT !.written = s.written, !.counts = s.counts,
                                 !.outcome = "closed"]
  /\ fpc' = "closed"
  /\ UNCHANGED <<pre, umask, opts, todo, runs, tally>>
  /\ UNCHANGED notFile

\* ... or an error while reading, transforming or writing, after part of
\* the output was written: the exception ends the run
StreamFails ==
  /\ fpc = "stream"
  /\ LET s == transform_stream(opts.patterns, fs[call.path].data, opts.by_line)
     IN  \E k \in 0..Len(s.written) :
           /\ fs' = WriteOver(fs, call.temp, SubSeq(s.written, 1, k))
           /\ call' = [call EXCEPT !.written = SubSeq(s.written, 1, k), !.outcome = "failed"]
  /\ todo' = {}
  /\ fpc' = "idle"
  /\ UNCHANGED <<pre, umask, opts, runs, tally>>
  /\ UNCHANGED notFile

\* transform_file, lines 293-295 and 299-306, and rewrite_file, 315-318
Commit ==
  /\ fpc = "closed"
  /\ ~opts.dry_run /\ call.counts.found > 0
  /\ Exists(move_file(fs, call.path, call.orig, TRUE), call.temp)
  /\ LET backed == move_file(fs, call.path, call.orig, TRUE)
         target == MoveTarget(backed, call.dest, FALSE).path
     IN  /\ fs' = move_file(backed, call.temp, call.dest, FALSE)
         /\ call' = [call EXCEPT !.final = target, !.outcome = "committed",
                                 !.log = RewriteLog(call.path, call.dest, call.counts)]
  /\ tally' = Tallied(tally, call.counts, call.path, call.dest)
  /\ fpc' = "run"
  /\ UNCHANGED <<pre, umask, opts, todo, runs>>
  /\ UNCHANGED notFile

\* transform_file, lines 293-295, when the first move takes the temp file
\* away: shutil.move of line 295 finds no file and its exception ends the
\* run
MoveFails ==
  /\ fpc = "closed"
  /\ ~opts.dry_run /\ call.counts.found > 0
  /\ ~Exists(move_file(fs, call.path, call.orig, TRUE), call.temp)
  /\ fs' = move_file(fs, call.path, call.orig, TRUE)
  /\ call' = [call EXCEPT !.outcome = "unmoved"]
  /\ todo' = {}
  /\ fpc' = "idle"
  /\ UNCHANGED <<pre, umask, opts, runs, tally>>
  /\ UNCHANGED notFile

\* transform_file, lines 296-297 and 299-306, and rewrite_file, 315-318
Discard ==
  /\ fpc = "closed"
  /\ ~(~opts.dry_run /\ call.counts.found > 0)
  /\ fs' = Remove(fs, call.temp)
  /\ call' = [call EXCEPT !.outcome = "discarded",
                          !.log = RewriteLog(call.path, call.dest, call.counts)]
  /\ tally' = Tallied(tally, call.counts, call.path, call.dest)
  /\ fpc' = "run"
  /\ UNCHANGED <<pre, umask, opts, todo, runs>>
  /\ UNCHANGED notFile

NextFile ==
  \/ StartRun
  \/ PathNotFound
  \/ EndRun
  \/ RewriteNoTransform
  \/ OpenFiles
  \/ OpenFails
  \/ StreamAll
  \/ StreamFails
  \/ Commit
  \/ MoveFails
  \/ Discard

Spec ==
  InitFile /\ [][NextFile]_vars

(***************************************************************************)
(* move_file called on its own                                             *)
(***************************************************************************)
P_out == <<"o", "u", "t">>
P_new == <<"n">>
P_more == <<"m">>

\* the files there may be at first, each with data of its own
MoveFiles ==
  { <<P_out, File(<<"0">>, {"u_r"})>>,
    <<PlusSuffix(P_out, NumSuffix(1)), File(<<"1">>, {"u_r"})>>,
    <<P_new, File(<<"n">>, {"u_r"})>>,
    <<P_more, File(<<"m">>, {"u_r"})>> }

\* the values of dest_path
MoveDests ==
  {P_out, PlusSuffix(P_out, NumSuffix(1)), P_new}

InitMove ==
  /\ IdleMR /\ IdleParse
  /\ \E chosen \in SUBSET MoveFiles :
       /\ chosen # {}
       /\ fs = [p \in {c[1] : c \in chosen} |-> (CHOOSE c \in chosen : c[1] = p)[2]]
  /\ pre = fs
  /\ call = [source |-> P_out, dest |-> P_out, clobber |-> TRUE, final |-> P_out, i |-> 1,
             moved |-> FALSE, clobbered |-> FALSE, first |-> fs]
  /\ umask = {} /\ opts = <<>> /\ todo = {} /\ runs = 0 /\ tally = <<>>
  /\ fpc = "move"

\* move_file(source_path, dest_path, clobber) of an existing file
MoveFile ==
  /\ fpc = "move"
  /\ runs < MaxMoves
  /\ runs' = runs + 1
  /\ \E source_path \in DOMAIN fs, dest_path \in MoveDests, clobber \in BOOLEAN :
       LET target == MoveTarget(fs, dest_path, clobber)
       IN  /\ fs' = move_file(fs, source_path, dest_path, clobber)
           /\ call' = [source |-> source_path, dest |-> dest_path, clobber |-> clobber,
                       final |-> target.path, i |-> target.i, moved |-> TRUE,
                       clobbered |-> call.clobbered \/ clobber, first |-> call.first]
  /\ pre' = fs
  /\ UNCHANGED <<umask, opts, todo, tally, fpc>>
  /\ UNCHANGED notFile

NextMove ==
  \/ MoveFile

SpecMove ==
  InitMove /\ [][NextMove]_vars

(***************************************************************************)
(* Claims about multi_replace                                              *)
(***************************************************************************)
\* C2: at every step of the selection loop the accepted matches are ordered
\* by start offset and no two of them overlap (a.start < b.end and
\* b.start < a.end), also when rules match the empty string.
NonOverlapInvariant ==
  \A i, j \in 1..Len(non_overlaps) :
    i < j => /\ non_overlaps[i].start <= non_overlaps[j].start
             /\ ~_overlap(non_overlaps[i], non_overlaps[j])

\* C4: every match multi_replace drops overlaps an accepted match of a rule
\* declared earlier; every match of the first rule is accepted; rules
\* [a->X, ab->Y] turn "ab" into "Xb".
Accepted(m) ==
  \E i \in 1..Len(non_overlaps) : non_overlaps[i] = m

DeclarationOrderPreference ==
  /\ \A k \in 1..Len(skipped) :
       /\ skipped[k].by.rule < skipped[k].match.rule
       /\ _overlap(skipped[k].by, skipped[k].match)
       /\ Accepted(skipped[k].by)
  /\ mpc \in {"apply", "done"} =>
       \A k \in 1..Len(matches) : matches[k].rule = 1 => Accepted(matches[k])
  /\ (mpc = "done" /\ input = Str_ab
        /\ patterns = <<Rule(<<"a">>, <<"X">>), Rule(Str_ab, <<"Y">>)>>)
       => out = <<"X", "b">>

DeclarationOrderWitness ==
  /\ mpc = "done" /\ input = Str_ab
  /\ patterns = <<Rule(<<"a">>, <<"X">>), Rule(Str_ab, <<"Y">>)>>
  /\ Len(skipped) = 1 /\ skipped[1].match.rule = 2 /\ skipped[1].by.rule = 1
  /\ out = <<"X", "b">>

\* the buffer outside the accepted matches, each character once and in
\* order, with each accepted match's replacement at the match's place
RECURSIVE ReplacementsAt(_, _, _, _)
ReplacementsAt(s, sel, k, i) ==
  IF k > Len(sel) THEN <<>>
  ELSE (IF sel[k].start = i
        THEN Expand(sel[k].repl, Slice(s, sel[k].start, sel[k].end))
        ELSE <<>>) \o ReplacementsAt(s, sel, k + 1, i)

RECURSIVE OutsideAndReplaced(_, _, _)
OutsideAndReplaced(s, sel, i) ==
  IF i > Len(s) THEN <<>>
  ELSE ReplacementsAt(s, sel, 1, i)
       \o (IF i < Len(s) /\ ~\E k \in 1..Len(sel) : sel[k].start <= i /\ i < sel[k].end
           THEN <<s[i + 1]>> ELSE <<>>)
       \o OutsideAndReplaced(s, sel, i + 1)

\* C5: the output is the buffer outside the accepted matches, copied once
\* and in order by a cursor that never moves backwards, with each accepted
\* match replaced by its own replacement; [foo->bar, bar->foo] turns
\* "foo bar" into "bar foo".
SimultaneousReplacement ==
  /\ (mpc = "apply" /\ ai < Len(non_overlaps)) => pos <= non_overlaps[ai + 1].start
  /\ mpc = "done" => out = OutsideAndReplaced(input, non_overlaps, 0)
  /\ (mpc = "done" /\ input = Str_foo_bar /\ patterns = SwapRules)
       => out = <<"b", "a", "r", " ", "f", "o", "o">>

\* the stepwise run computes what the functions compute
StepwiseAgrees ==
  mpc = "done" => /\ non_overlaps = _sort_drop_overlaps(matches)
                  /\ out = multi_replace(input, patterns).result

(***************************************************************************)
(* Claims about the case variants and parse_patterns                       *)
(***************************************************************************)
Without(s, c) ==
  SelectSeq(s, LAMBDA x : x # c)

\* the four variants of one expression are lowerCamel, UpperCamel,
\* lower_underscore and UPPER_UNDERSCORE renderings of the same words
FourVariantsInOrder(v) ==
  /\ Len(v) = 4
  /\ Without(v[1], "_") = v[1] /\ Without(v[2], "_") = v[2]
  /\ v[3] = lower(v[3]) /\ v[4] = upper(v[3])
  /\ lower(v[1]) = Without(v[3], "_") /\ lower(v[2]) = Without(v[3], "_")
  /\ \A i \in 1..Len(v[1]) :
       (i = 1 \/ ~IsWordChar(v[1][i - 1])) =>
         /\ v[1][i] = LowerChar(v[1][i])
         /\ v[2][i] = UpperChar(v[1][i])

DocRewrites(lowerCamelResult) ==
  (ppc = "rewritten" /\ preserve_case /\ patterns_str = DocPatterns) =>
    /\ subject = Str_fooBar => rewritten = lowerCamelResult
    /\ subject = Str_FooBar => rewritten = Str_XxxYyy
    /\ subject = Str_FOO_BAR => rewritten = Str_XXX_YYY
    /\ subject = Str_foo_bar_name => rewritten = Str_xxx_yyy

Ignorable(line) ==
  strip(line) = <<>> \/ Head(strip(line)) = "#"

TabCount(line) ==
  Cardinality({i \in 1..Len(line) : line[i] = "\t"})

RECURSIVE RulesInLineOrder(_)
RulesInLineOrder(lines) ==
  IF lines = <<>> THEN <<>>
  ELSE LET line == Head(lines)
           tab == CHOOSE i \in 1..Len(line) : line[i] = "\t"
       IN  (IF Ignorable(line) \/ TabCount(line) # 1 THEN <<>>
            ELSE <<Rule(SubSeq(line, 1, tab - 1), SubSeq(line, tab + 1, Len(line)))>>)
           \o RulesInLineOrder(Tail(lines))

\* C10: blank lines and lines whose trimmed content starts with '#' yield
\* no rule and no error; every other line with exactly one tab yields its
\* rule, in line order; any other line is a fatal error.
PatternLineHandling ==
  /\ ppc = "failed" => ~Ignorable(plines[pli]) /\ TabCount(plines[pli]) # 1
  /\ \A i \in 1..pli : (~Ignorable(plines[i]) /\ TabCount(plines[i]) # 1) => ppc = "failed"
  /\ (ppc \in {"parsed", "rewritten"} /\ ~preserve_case) => parsed = RulesInLineOrder(plines)

(***************************************************************************)
(* Claims about transform_file and rewrite_file                            *)
(***************************************************************************)
\* path p is in the same state (absent, or the same data and mode) in both
Same(fsys1, fsys2, p) ==
  /\ Exists(fsys1, p) <=> Exists(fsys2, p)
  /\ Exists(fsys1, p) => fsys1[p] = fsys2[p]

FullOutput ==
  transform_stream(opts.patterns, pre[call.path].data, opts.by_line).written

\* C1: while the temp file is written, and after a failure of reading,
\* transforming or writing (also after a partial write), the source, a
\* backup at source_path + ".orig" and a file at dest_path are as they were
\* before the call; they change only in a commit, after the temp file was
\* completely written and closed.
WriteNewBeforeTouchingOld ==
  /\ call.outcome \in {"open", "closed", "failed"} =>
       /\ Same(fs, pre, call.path)
       /\ Same(fs, pre, call.orig)
       /\ Same(fs, pre, call.dest)
  /\ call.outcome = "committed" => call.written = FullOutput
  /\ (~Same(fs, pre, call.path) \/ ~Same(fs, pre, call.orig) \/ ~Same(fs, pre, call.dest))
       => call.outcome \in {"committed", "unmoved"}

\* the matches the transform finds in the source contents
MatchesFound(data) ==
  IF opts.by_line THEN StreamLines(opts.patterns, FileLines(data), 1).counts.found
  ELSE multi_replace(data, opts.patterns).found

\* C3: line by line and at once, transform_file commits if and only if
\* dry_run is false and the transform found a match, and returns the number
\* of matches found; otherwise the source and the backup are as before and
\* no temp file remains.
CommitCondition ==
  call.outcome \in {"committed", "discarded"} =>
    /\ call.outcome = "committed"
         <=> (~opts.dry_run /\ MatchesFound(pre[call.path].data) > 0)
    /\ call.counts.found = MatchesFound(pre[call.path].data)
    /\ (opts.dry_run \/ MatchesFound(pre[call.path].data) = 0) =>
         /\ Same(fs, pre, call.path)
         /\ Same(fs, pre, call.orig)
         /\ ~Exists(fs, call.temp)

\* dest_path or its collision-suffixed variant
IsVariantOf(p, dest_path) ==
  \/ p = dest_path
  \/ /\ HasTrailingNum(p)
     /\ WithoutTrailingNum(p)
          = (IF HasTrailingNum(dest_path) THEN WithoutTrailingNum(dest_path) ELSE dest_path)

\* C7: with do_renames and without dry_run, a file whose path the rules
\* rewrite is, after rewrite_file, at dest_path (or its collision-suffixed
\* variant) and no longer at its path, in renames-only mode and in full
\* mode; and a rename is reported only when the file was moved.
FileRenaming ==
  call.outcome \in {"skipped", "committed", "discarded"} =>
    /\ (opts.do_renames /\ ~opts.dry_run /\ call.dest # call.path) =>
         /\ ~Exists(fs, call.path)
         /\ \E p \in DOMAIN fs :
              /\ IsVariantOf(p, call.dest) /\ ~Exists(pre, p)
              /\ fs[p].data = (IF opts.do_contents THEN FullOutput ELSE pre[call.path].data)
    /\ (\E k \in 1..Len(call.log) : call.log[k].op = "rename") =>
         ~Exists(fs, call.path)

\* C9: after a commit the file at the destination has the permission bits
\* the source had, whatever the umask and whether or not a file existed at
\* the temp path.
PermissionPreservation ==
  call.outcome = "committed" => fs[call.final].mode = pre[call.path].mode

\* C11: after any sequence of transform_file calls, also with a file left
\* at dest_path + ".repren.tmp" by an earlier call or there beforehand, the
\* file a commit places at the destination holds exactly the transform's
\* output for the source contents: nothing of an older temp file survives
\* and nothing is truncated or mixed.
DestinationIntegrity ==
  call.outcome = "committed" =>
    /\ Exists(fs, call.final)
    /\ fs[call.final].data = FullOutput

(***************************************************************************)
(* Claims about move_file                                                  *)
(***************************************************************************)
MoveBase(dest_path) ==
  IF HasTrailingNum(dest_path) THEN WithoutTrailingNum(dest_path) ELSE dest_path

\* C6: move_file with clobber = False overwrites and removes no existing
\* file; the source goes to dest_path when nothing is there, and otherwise
\* to base.N for the smallest N >= 1 with no base.N, base being dest_path
\* without a trailing ".<digits>" (with out and out.1 there, to out.2);
\* after any sequence of such moves every file is still there with its own
\* data at a path of its own; and the search loop ends.
NonClobberingRename ==
  /\ (call.moved /\ ~call.clobber) =>
       /\ \A p \in DOMAIN pre \ {call.source} : Exists(fs, p) /\ fs[p] = pre[p]
       /\ ~Exists(pre, call.final)
       /\ Exists(fs, call.final) /\ fs[call.final] = pre[call.source]
       /\ ~Exists(fs, call.source)
       /\ ~Exists(pre, call.dest) => call.final = call.dest
       /\ Exists(pre, call.dest) =>
            \E n \in 1..(Cardinality(DOMAIN pre) + 1) :
              /\ call.final = PlusSuffix(MoveBase(call.dest), NumSuffix(n))
              /\ \A k \in 1..(n - 1) : Exists(pre, PlusSuffix(MoveBase(call.dest), NumSuffix(k)))
              /\ call.i = n + 1
       /\ ( /\ {P_out, PlusSuffix(P_out, NumSuffix(1))} \subseteq DOMAIN pre
            /\ ~Exists(pre, PlusSuffix(P_out, NumSuffix(2)))
            /\ call.dest = P_out )
            => call.final = PlusSuffix(P_out, NumSuffix(2))
  /\ ~call.clobbered =>
       /\ Cardinality(DOMAIN fs) = Cardinality(DOMAIN call.first)
       /\ \A p \in DOMAIN call.first : \E q \in DOMAIN fs : fs[q] = call.first[p]

NonClobberingWitness ==
  /\ call.moved /\ ~call.clobbered
  /\ call.source = P_new /\ call.dest = P_out
  /\ {P_out, PlusSuffix(P_out, NumSuffix(1))} \subseteq DOMAIN pre
  /\ call.final = PlusSuffix(P_out, NumSuffix(2))
  /\ fs[call.final].data = <<"n">>
  /\ fs[P_out].data = <<"0">> /\ fs[PlusSuffix(P_out, NumSuffix(1))].data = <<"1">>

====
